---------------------------- MODULE Spec2Model ----------------------------
(***************************************************************************)
(* Model of gerenciador_tarefas.py: the storage gateway (BancoDeDados),    *)
(* the task record (Tarefa) and the task manager (GerenciadorTarefas)      *)
(* with the menu loop of main().                                           *)
(*                                                                         *)
(* One action is one complete handler.  What the handler reads from the    *)
(* console and what the backend answers to each storage call are inputs    *)
(* of the action.  Everything the handler does that is visible from        *)
(* outside (prompts, log records, storage calls, close() calls) is         *)
(* recorded, in order, in trace, which holds the events of the last        *)
(* handler that ran.                                                       *)
(***************************************************************************)
EXTENDS Integers, Sequences, FiniteSets, TLC

VARIABLES
    pc,          \* "inicio" | "menu" (main's loop waits for a choice) |
                 \* "iteracao" (a handler returned to main's loop) |
                 \* "direto" (a caller other than main is about to call) |
                 \* "retorno" (a handler returned to that caller) | "fim"
    bd,          \* GerenciadorTarefas.bd is not None
    conexao,     \* BancoDeDados.conexao: None or the connection object
    cursor,      \* BancoDeDados.cursor: None or the cursor object
    conectado,   \* what conexao.is_connected() answers
    tabela,      \* table tarefas: id -> row
    proxId,      \* next AUTO_INCREMENT value
    relogio,     \* the last value datetime.now() returned
    op,          \* name of the last handler that ran
    trace,       \* events of the last handler, in order
    fechados     \* number of close() calls: [cursor |-> n, conexao |-> n]

vars == <<pc, bd, conexao, cursor, conectado, tabela, proxId, relogio, op,
          trace, fechados>>

-----------------------------------------------------------------------------
(* Bounds of the model. *)

\* datetime.now() is called at most this many times in a run.
MaxRelogio == 2
\* Rows the table holds at once.
MaxTarefas == 2
\* Answers the user has ready for the title prompt of one Create.
MaxTentativas == 2

-----------------------------------------------------------------------------
(* Values. *)

\* Python's None where a str is expected (a NULL column read back).
None == "<None>"
\* Python's None where a datetime is expected (NULL data_conclusao).
NoneData == 0
\* The console's input stream is at end of file: input() raises EOFError.
EOF == "<EOF>"

TamanhoMinimoTitulo == 12

\* What the user types at the title prompt.
TitulosDigitados == {"", "onze letras", "doze letras!"}
DescricoesDigitadas == {"desc"}
ResponsaveisDigitados == {"Ana"}

\* str.lower() on the status strings of the model.
Lower(s) ==
    CASE s = "Concluída" -> "concluída"
      [] s = "CONCLUÍDA" -> "concluída"
      [] s = "Pendente" -> "pendente"
      [] OTHER -> s

Digitos == <<"0", "1", "2", "3", "4", "5", "6", "7", "8", "9">>

\* str(n) for an int n >= 0.
RECURSIVE Str(_)
Str(n) == IF n < 10 THEN Digitos[n + 1]
                    ELSE Str(n \div 10) \o Digitos[(n % 10) + 1]

-----------------------------------------------------------------------------
(* Events. *)

Ev(ev, tipo, dados) == [ev |-> ev, tipo |-> tipo, dados |-> dados]
Log(nivel, msg) == Ev("log", nivel, <<msg>>)
LogCom(nivel, msg, detalhe) == Ev("log", nivel, <<msg, detalhe>>)
Input(prompt, resposta) == Ev("input", prompt, <<resposta>>)
\* A storage call: the statement, its bound parameters, and whether the
\* backend executed it (FALSE: it raised Error, which the gateway swallows).
Sql(comando, parametros, ok) ==
    Ev("sql", comando, <<parametros, ok>>)
Close(objeto) == Ev("close", objeto, <<>>)
Raise(excecao) == Ev("raise", excecao, <<>>)

-----------------------------------------------------------------------------
(* Tarefa. *)

\* Tarefa.__init__ that stamps the completion as it stamps the creation.
TarefaComConclusao(titulo, descricao, responsavel, agora) ==
    [titulo |-> titulo, descricao |-> descricao, responsavel |-> responsavel,
     status |-> "Pendente", data_criacao |-> agora, data_conclusao |-> agora]

\* Tarefa.__init__ at time agora.
Tarefa(titulo, descricao, responsavel, agora) ==
    [titulo |-> titulo, descricao |-> descricao, responsavel |-> responsavel,
     status |-> "Pendente", data_criacao |-> agora,
     data_conclusao |-> NoneData]

-----------------------------------------------------------------------------
(* BancoDeDados. *)

\* is_bd_ready without the is_connected() test.
IsBdReadySemConectado == bd /\ conexao # None

\* GerenciadorTarefas.is_bd_ready.
IsBdReady == bd /\ conexao # None /\ conectado

\* fechar_conexao without the is_connected() test.
FecharConexaoSemTeste ==
    IF conexao # None
    THEN <<(IF cursor # None THEN <<Close("cursor")>> ELSE <<>>)
             \o <<Close("conexao"), Log("info", "conexao fechada")>>,
           [cursor |-> fechados.cursor + (IF cursor # None THEN 1 ELSE 0),
            conexao |-> fechados.conexao + 1],
           FALSE>>
    ELSE <<(<<Log("info", "nenhuma conexao ativa")>>), fechados, conectado>>

\* BancoDeDados.fechar_conexao: <<events, fechados', conectado'>>.
FecharConexaoRes ==
    IF conexao # None /\ conectado
    THEN <<(IF cursor # None THEN <<Close("cursor")>> ELSE <<>>)
             \o <<Close("conexao"), Log("info", "conexao fechada")>>,
           [cursor |-> fechados.cursor + (IF cursor # None THEN 1 ELSE 0),
            conexao |-> fechados.conexao + 1],
           FALSE>>
    ELSE <<(<<Log("info", "nenhuma conexao ativa")>>), fechados, conectado>>

\* fechar_sistema that logs but leaves the gateway open.
FecharSistemaSemGateway ==
    <<(<<Log("info", "sistema encerrado")>>), fechados, conectado>>

\* GerenciadorTarefas.fechar_sistema: <<events, fechados', conectado'>>.
FecharSistemaRes ==
    LET r == IF bd THEN FecharConexaoRes ELSE <<(<<>>), fechados, conectado>>
    IN  <<r[1] \o <<Log("info", "sistema encerrado")>>, r[2], r[3]>>


\* BancoDeDados._conectar followed by criar_tabela, for what the backend
\* answers: resultado is how mysql.connector.connect ends ("ok": a live
\* connection; "erro": it raises Error; "desconectado": it returns a
\* connection whose is_connected() is False), ddl how the CREATE TABLE ends
\* ("ok", "1050": Error with errno 1050, "erro": any other Error).
ConectarRes(resultado, ddl) ==
    CASE resultado = "erro" ->
           [conexao |-> None, cursor |-> None, conectado |-> FALSE,
            eventos |-> <<Log("error", "erro ao conectar")>>]
      [] resultado = "desconectado" ->
           [conexao |-> "conn", cursor |-> None, conectado |-> FALSE,
            eventos |-> <<Log("warning", "nao foi possivel conectar")>>]
      [] OTHER ->
           [conexao |-> "conn", cursor |-> "cur", conectado |-> TRUE,
            eventos |->
              <<Log("info", "conexao estabelecida"),
                Sql("CREATE TABLE", <<>>, ddl = "ok")>>
              \o (CASE ddl = "ok" -> <<Log("info", "tabela criada")>>
                    [] ddl = "1050" -> <<Log("info", "tabela ja existe")>>
                    [] OTHER -> <<Log("error", "erro ao criar a tabela")>>)]

ResultadosConexao == {"ok", "erro", "desconectado"}
ResultadosDdl == {"ok", "1050", "erro"}

\* The ids of the table in the order a SELECT returns the rows.
RECURSIVE Ordenados(_)
Ordenados(S) ==
    IF S = {} THEN <<>>
    ELSE LET m == CHOOSE x \in S : \A y \in S : x <= y
         IN  <<m>> \o Ordenados(S \ {m})

\* A fetch of the ids that returns them even when the backend raised Error.
BuscarIdsSemErro(ok) == Ordenados(DOMAIN tabela)

\* BancoDeDados.buscar_dados for "SELECT id FROM tarefas": the ids fetched
\* (none when the backend raised Error).
BuscarIds(ok) == IF ok THEN Ordenados(DOMAIN tabela) ELSE <<>>

-----------------------------------------------------------------------------
(* main's menu. *)

\* An int() that refuses surrounding whitespace.
ParseIntSemEspacos(s) ==
    CASE s = "1" -> [ok |-> TRUE, valor |-> 1]
      [] s = "2" -> [ok |-> TRUE, valor |-> 2]
      [] s = "3" -> [ok |-> TRUE, valor |-> 3]
      [] s = "4" -> [ok |-> TRUE, valor |-> 4]
      [] s = "5" -> [ok |-> TRUE, valor |-> 5]
      [] s = "6" -> [ok |-> TRUE, valor |-> 6]
      [] s = "0" -> [ok |-> TRUE, valor |-> 0]
      [] OTHER -> [ok |-> FALSE, valor |-> 0]

\* int(s) for the choices of the model: [ok, valor]; ok = FALSE is ValueError.
ParseInt(s) ==
    CASE s = "1" -> [ok |-> TRUE, valor |-> 1]
      [] s = "2" -> [ok |-> TRUE, valor |-> 2]
      [] s = "3" -> [ok |-> TRUE, valor |-> 3]
      [] s = " 6" -> [ok |-> TRUE, valor |-> 6]
      [] s = "4" -> [ok |-> TRUE, valor |-> 4]
      [] s = "5" -> [ok |-> TRUE, valor |-> 5]
      [] s = "6" -> [ok |-> TRUE, valor |-> 6]
      [] s = "0" -> [ok |-> TRUE, valor |-> 0]
      [] OTHER -> [ok |-> FALSE, valor |-> 0]

EscolhasMenu == {"1", "2", "3", "4", "5", "6", " 6", "0", "abc", ""}

\* The choices main dispatches to case n.
EscolhasDe(n) ==
    {c \in EscolhasMenu : ParseInt(c).ok /\ ParseInt(c).valor = n}

\* The handlers run from main's loop or are called directly.
Disponivel == pc \in {"menu", "direto"}

\* Where a handler that started at pc returns to.
Volta == IF pc = "menu" THEN "iteracao" ELSE "retorno"

\* The end of a handler dispatched as case n of main's match, or called
\* directly: eventos is what the handler did, tab/rel/pid the table, clock
\* and AUTO_INCREMENT it leaves, exc whether it raised an Exception.  In
\* main an Exception is logged as critical, fechar_sistema runs and the loop
\* ends; a direct caller gets the exception.
Fim(nome, n, eventos, tab, rel, pid, exc) ==
    /\ op' = nome
    /\ tabela' = tab
    /\ relogio' = rel
    /\ proxId' = pid
    /\ UNCHANGED <<bd, conexao, cursor>>
    /\ IF pc = "menu"
       THEN \E c \in EscolhasDe(n) :
              IF exc
              THEN /\ trace' = <<Input("menu", c)>> \o eventos
                                 \o <<Log("critical", "erro inesperado")>>
                                 \o FecharSistemaRes[1]
                   /\ fechados' = FecharSistemaRes[2]
                   /\ conectado' = FecharSistemaRes[3]
                   /\ pc' = "fim"
              ELSE /\ trace' = <<Input("menu", c)>> \o eventos
                   /\ pc' = Volta
                   /\ UNCHANGED <<fechados, conectado>>
       ELSE /\ trace' = eventos \o (IF exc THEN <<Raise("Exception")>>
                                           ELSE <<>>)
            /\ pc' = Volta
            /\ UNCHANGED <<fechados, conectado>>

-----------------------------------------------------------------------------
(* Construction. *)

EstadoInicial(linhas, agora) ==
    /\ pc = "inicio"
    /\ bd = FALSE
    /\ conexao = None
    /\ cursor = None
    /\ conectado = FALSE
    /\ tabela = linhas
    /\ proxId = 1 + Cardinality(DOMAIN linhas)
    /\ relogio = agora
    /\ op = "nenhuma"
    /\ trace = <<>>
    /\ fechados = [cursor |-> 0, conexao |-> 0]

\* The table is empty when the program starts.
TabelaVazia == [i \in {} |-> None]

Init == EstadoInicial(TabelaVazia, 0)

\* Rows written to the table by something other than this program: the
\* columns status and data_conclusao are nullable and unconstrained.
LinhasLegadas ==
    {[titulo |-> "doze letras!", descricao |-> "desc", responsavel |-> "Ana",
      status |-> st, data_criacao |-> 1, data_conclusao |-> dc] :
        st \in {None, "Pendente", "Concluída"}, dc \in {NoneData, 1}}

\* The program starts on a table that already holds one such row.
InitLegado ==
    \E l \in LinhasLegadas : EstadoInicial([i \in {1} |-> l], 1)

\* GerenciadorTarefas.__init__: the gateway connects; a gateway that is not
\* ready is dropped (bd = None).
Construir(resultado, ddl, eventosFinais, pcNovo) ==
    LET r == ConectarRes(resultado, ddl)
        pronto == r.conexao # None /\ r.conectado
    IN  /\ conexao' = r.conexao
        /\ cursor' = r.cursor
        /\ conectado' = r.conectado
        /\ bd' = pronto
        /\ trace' = r.eventos
                      \o (IF pronto THEN <<>>
                          ELSE <<Log("critical", "nao foi possivel inicializar")>>)
                      \o (IF pronto THEN <<>> ELSE eventosFinais)
        /\ pc' = IF pronto THEN pcNovo[1] ELSE pcNovo[2]
        /\ op' = "construir"
        /\ UNCHANGED <<tabela, proxId, relogio, fechados>>

\* main up to its loop: a manager that is not ready ends the program.
MainInicia ==
    /\ pc = "inicio"
    /\ \E resultado \in ResultadosConexao, ddl \in ResultadosDdl :
         Construir(resultado, ddl,
                   <<Log("critical", "encerrando o programa")>>,
                   <<"iteracao", "fim">>)

\* GerenciadorTarefas() built by a caller other than main (the tests), which
\* then calls its methods in any order.
ConstroiDireto ==
    /\ pc = "inicio"
    /\ \E resultado \in ResultadosConexao, ddl \in ResultadosDdl :
         Construir(resultado, ddl, <<>>, <<"retorno", "retorno">>)


-----------------------------------------------------------------------------
(* GerenciadorTarefas.cadastrar_tarefa. *)

\* A title test that only refuses the empty title.
TituloValidoNaoVazio(titulo) == Len(titulo) >= 1

\* The test of the title loop: len(titulo) >= 12.
TituloValido(titulo) == Len(titulo) >= TamanhoMinimoTitulo

\* The title loop reading the answers titulos from position i on: the events
\* and the title the loop ends with (EOF when the answers run out, which
\* makes input() raise EOFError).
RECURSIVE LerTitulo(_, _)
LerTitulo(titulos, i) ==
    IF i > Len(titulos)
    THEN [eventos |-> <<Input("titulo", EOF)>>, titulo |-> EOF]
    ELSE IF TituloValido(titulos[i])
    THEN [eventos |-> <<Input("titulo", titulos[i])>>, titulo |-> titulos[i]]
    ELSE LET r == LerTitulo(titulos, i + 1)
         IN  [eventos |-> <<Input("titulo", titulos[i]),
                            Log("warning", "titulo curto")>> \o r.eventos,
              titulo |-> r.titulo]

\* The parameters bound to the INSERT.
ParametrosInsert(t) ==
    <<t.titulo, t.descricao, t.responsavel, t.status, t.data_criacao,
      t.data_conclusao>>

\* The table after INSERT of task t.
Inserida(t) ==
    [i \in DOMAIN tabela \cup {proxId} |->
        IF i = proxId THEN t ELSE tabela[i]]

\* The sequences of at most n elements of S.
RECURSIVE SeqAte(_, _)
SeqAte(S, n) ==
    IF n = 0 THEN {<<>>}
    ELSE LET menores == SeqAte(S, n - 1)
         IN  menores \cup {Append(q, x) : q \in menores, x \in S}

Cadastrar ==
    /\ Disponivel
    /\ IF ~IsBdReady
       THEN Fim("cadastrar", 1, <<Log("error", "conexao nao esta ativa")>>,
                tabela, relogio, proxId, FALSE)
       ELSE \E titulos \in SeqAte(TitulosDigitados, MaxTentativas) :
              LET lido == LerTitulo(titulos, 1)
              IN  IF lido.titulo = EOF
                  THEN Fim("cadastrar", 1, lido.eventos,
                           tabela, relogio, proxId, TRUE)
                  ELSE \E descricao \in DescricoesDigitadas \cup {EOF} :
                    IF descricao = EOF
                    THEN Fim("cadastrar", 1,
                             lido.eventos \o <<Input("descricao", EOF)>>,
                             tabela, relogio, proxId, TRUE)
                    ELSE \E responsavel \in ResponsaveisDigitados \cup {EOF} :
                      IF responsavel = EOF
                      THEN Fim("cadastrar", 1,
                               lido.eventos
                                 \o <<Input("descricao", descricao),
                                      Input("responsavel", EOF)>>,
                               tabela, relogio, proxId, TRUE)
                      ELSE
                        /\ relogio < MaxRelogio
                        /\ Cardinality(DOMAIN tabela) < MaxTarefas
                        /\ \E ok \in BOOLEAN :
                             LET t == Tarefa(lido.titulo, descricao,
                                             responsavel, relogio + 1)
                                 ev == lido.eventos
                                       \o <<Input("descricao", descricao),
                                            Input("responsavel", responsavel),
                                            Sql("INSERT", ParametrosInsert(t), ok)>>
                                       \o (IF ok THEN <<>>
                                           ELSE <<Log("error", "erro ao executar comando")>>)
                                       \o <<Log("info", "tarefa cadastrada")>>
                             IN  Fim("cadastrar", 1, ev,
                                     IF ok THEN Inserida(t) ELSE tabela,
                                     relogio + 1,
                                     IF ok THEN proxId + 1 ELSE proxId,
                                     FALSE)

-----------------------------------------------------------------------------
(* GerenciadorTarefas.exibir_tarefas. *)

\* A completion field that is str(t[6]) whatever t[6] is.
ConclusaoExibidaSempre(data) == Str(data)

\* str(t[6]) of a row, or the literal shown for a NULL data_conclusao.
ConclusaoExibida(data) ==
    IF data # NoneData THEN Str(data) ELSE "Não concluída"

\* The block logged for the row of id i.  The trace keeps the seven lines
\* of the block when List is the handler (completo), and the ID line alone
\* when Update or Delete call it.
Bloco(i, completo) ==
    LET t == tabela[i]
    IN  IF completo
        THEN Ev("log", "info",
                <<"tarefa", Str(i), t.titulo, t.descricao, t.responsavel,
                  t.status, Str(t.data_criacao),
                  ConclusaoExibida(t.data_conclusao)>>)
        ELSE Ev("log", "info", <<"tarefa", Str(i)>>)

\* exibir_tarefas on a ready gateway; ok: the backend executed SELECT *.
ExibirEventos(ok, completo) ==
    <<Sql("SELECT *", <<>>, ok)>>
    \o (IF ok THEN <<>> ELSE <<Log("error", "erro ao buscar os dados")>>)
    \o (IF ~ok \/ DOMAIN tabela = {}
        THEN <<Log("info", "nenhuma tarefa cadastrada")>>
        ELSE <<Log("info", "lista de tarefas")>>
             \o [k \in 1..Cardinality(DOMAIN tabela) |->
                   Bloco(Ordenados(DOMAIN tabela)[k], completo)])

Exibir ==
    /\ Disponivel
    /\ IF ~IsBdReady
       THEN Fim("exibir", 2, <<Log("error", "conexao nao esta ativa")>>,
                tabela, relogio, proxId, FALSE)
       ELSE \E ok \in BOOLEAN :
              Fim("exibir", 2, ExibirEventos(ok, TRUE), tabela, relogio, proxId,
                  FALSE)


-----------------------------------------------------------------------------
(* GerenciadorTarefas.atualizar_tarefa and excluir_tarefa. *)

\* What the user types at the prompts of Update and Delete.
IdsDigitados == {"1", "2", "01", "9"}
TitulosNovos == {"", "Novo Titulo"}
DescricoesNovas == {"", "Nova Descricao"}
ResponsaveisNovos == {"", "Novo Responsavel"}
StatusDigitados == {"", "Pendente", "Concluída", "CONCLUÍDA"}

\* A search that compares the ids as numbers, as the backend does.
TarefaEncontradaComoNumero(ids, idDigitado) ==
    \E k \in 1..Len(ids) :
        ids[k] = (CASE idDigitado = "1" -> 1
                    [] idDigitado = "2" -> 2
                    [] idDigitado = "01" -> 1
                    [] OTHER -> 0)

\* The loop over tarefas_existentes: str(t_id[0]) == id_tarefa for some row.
TarefaEncontrada(ids, idDigitado) ==
    \E k \in 1..Len(ids) : Str(ids[k]) = idDigitado

\* The number the backend compares the id column with when the parameter
\* bound to "WHERE id=%s" is the string s.
NumeroDe(s) ==
    CASE s = "1" -> 1
      [] s = "2" -> 2
      [] s = "3" -> 3
      [] s = "4" -> 4
      [] s = "5" -> 5
      [] s = "01" -> 1
      [] s = "9" -> 9
      [] OTHER -> 0

\* The ids of the rows "WHERE id=%s" selects for the string parameter s.
LinhasDoId(s) == {i \in DOMAIN tabela : i = NumeroDe(s)}

\* An update that stores what was typed, blank or not.
MantidoNunca(digitado, atual) == digitado

\* "Leave blank to keep the current value".
Mantido(digitado, atual) == IF digitado = "" THEN atual ELSE digitado

EhConcluida(status) == Lower(status) = "concluída"

\* The rule comparing the new status without lower().
DataConclusaoSemLower(statusAtual, novoStatus, dataAtual, agora) ==
    IF novoStatus = "concluída"
       /\ (statusAtual = None \/ Lower(statusAtual) # "concluída")
    THEN agora
    ELSE IF novoStatus # "concluída"
            /\ (statusAtual # None /\ Lower(statusAtual) = "concluída")
    THEN NoneData
    ELSE dataAtual

\* The rule without its elif: the timestamp is never cleared.
DataConclusaoSemLimpar(statusAtual, novoStatus, dataAtual, agora) ==
    IF Lower(novoStatus) = "concluída"
       /\ (statusAtual = None \/ Lower(statusAtual) # "concluída")
    THEN agora
    ELSE dataAtual

\* The completion timestamp the update binds: statusAtual and dataAtual are
\* the row's, novoStatus the status to store, agora what datetime.now()
\* returns if it is called.
DataConclusaoNova(statusAtual, novoStatus, dataAtual, agora) ==
    IF EhConcluida(novoStatus)
       /\ (statusAtual = None \/ ~EhConcluida(statusAtual))
    THEN agora
    ELSE IF ~EhConcluida(novoStatus)
            /\ (statusAtual # None /\ EhConcluida(statusAtual))
    THEN NoneData
    ELSE dataAtual

\* Whether the update calls datetime.now().
ChamaAgora(statusAtual, novoStatus) ==
    EhConcluida(novoStatus)
    /\ (statusAtual = None \/ ~EhConcluida(statusAtual))

\* An UPDATE without its WHERE clause: every row is rewritten.
AtualizadaTodas(titulo, descricao, responsavel, status, data, idDigitado) ==
    [i \in DOMAIN tabela |->
        [tabela[i] EXCEPT !.titulo = titulo, !.descricao = descricao,
                          !.responsavel = responsavel, !.status = status,
                          !.data_conclusao = data]]

\* The table after "UPDATE ... WHERE id=%s" with these parameters.
Atualizada(titulo, descricao, responsavel, status, data, idDigitado) ==
    [i \in DOMAIN tabela |->
        IF i \in LinhasDoId(idDigitado)
        THEN [tabela[i] EXCEPT !.titulo = titulo, !.descricao = descricao,
                               !.responsavel = responsavel, !.status = status,
                               !.data_conclusao = data]
        ELSE tabela[i]]

\* A DELETE without its WHERE clause: no row is left.
ExcluidaTodas(idDigitado) == [i \in {} |-> None]

\* The table after "DELETE FROM tarefas WHERE id=%s".
Excluida(idDigitado) ==
    [i \in DOMAIN tabela \ LinhasDoId(idDigitado) |-> tabela[i]]

\* A fetch the backend did not execute is logged by buscar_dados.
SqlBusca(comando, parametros, ok) ==
    <<Sql(comando, parametros, ok)>>
    \o (IF ok THEN <<>> ELSE <<Log("error", "erro ao buscar os dados")>>)

\* A command the backend did not execute is logged by executar_comando.
SqlComando(comando, parametros, ok) ==
    <<Sql(comando, parametros, ok)>>
    \o (IF ok THEN <<>> ELSE <<Log("error", "erro ao executar comando")>>)

\* The part of atualizar_tarefa after dados_atuais was fetched: the four
\* prompts, the completion-timestamp rule and the UPDATE.  ev: the events
\* so far.
AtualizarCampos(ev, idDigitado) ==
    LET atual == tabela[CHOOSE i \in LinhasDoId(idDigitado) : TRUE]
        termina(e, tab, rel, exc) ==
            Fim("atualizar", 3, ev \o e, tab, rel, proxId, exc)
    IN
    \E nt \in TitulosNovos \cup {EOF} :
      IF nt = EOF
      THEN termina(<<Input("novo titulo", EOF)>>, tabela, relogio, TRUE)
      ELSE \E nd \in DescricoesNovas \cup {EOF} :
        IF nd = EOF
        THEN termina(<<Input("novo titulo", nt),
                       Input("nova descricao", EOF)>>, tabela, relogio, TRUE)
        ELSE \E nr \in ResponsaveisNovos \cup {EOF} :
          IF nr = EOF
          THEN termina(<<Input("novo titulo", nt),
                         Input("nova descricao", nd),
                         Input("novo responsavel", EOF)>>,
                       tabela, relogio, TRUE)
          ELSE \E ns \in StatusDigitados \cup {EOF} :
            LET prompts == <<Input("novo titulo", nt),
                             Input("nova descricao", nd),
                             Input("novo responsavel", nr),
                             Input("novo status", ns)>>
                novo_titulo == Mantido(nt, atual.titulo)
                nova_descricao == Mantido(nd, atual.descricao)
                novo_responsavel == Mantido(nr, atual.responsavel)
                novo_status == Mantido(ns, atual.status)
            IN
            IF ns = EOF
            THEN termina(prompts, tabela, relogio, TRUE)
            ELSE IF novo_status = None
            \* None.lower() raises AttributeError
            THEN termina(prompts, tabela, relogio, TRUE)
            ELSE
              LET chama == ChamaAgora(atual.status, novo_status)
                  rel == IF chama THEN relogio + 1 ELSE relogio
                  data == DataConclusaoNova(atual.status, novo_status,
                                            atual.data_conclusao, relogio + 1)
                  params == <<novo_titulo, nova_descricao, novo_responsavel,
                              novo_status, data, idDigitado>>
              IN  /\ chama => relogio < MaxRelogio
                  /\ \E ok \in BOOLEAN :
                       termina(prompts \o SqlComando("UPDATE", params, ok)
                                 \o <<Log("info", "tarefa atualizada")>>,
                               IF ok
                               THEN Atualizada(novo_titulo, nova_descricao,
                                               novo_responsavel, novo_status,
                                               data, idDigitado)
                               ELSE tabela,
                               rel, FALSE)

Atualizar ==
    /\ Disponivel
    /\ IF ~IsBdReady
       THEN Fim("atualizar", 3, <<Log("error", "conexao nao esta ativa")>>,
                tabela, relogio, proxId, FALSE)
       ELSE \E ok1 \in BOOLEAN, ok2 \in BOOLEAN :
         LET ev2 == ExibirEventos(ok1, FALSE) \o SqlBusca("SELECT id", <<>>, ok2)
             ids == BuscarIds(ok2)
         IN
         IF ids = <<>>
         THEN Fim("atualizar", 3,
                  ev2 \o <<Log("info", "nenhuma tarefa para atualizar")>>,
                  tabela, relogio, proxId, FALSE)
         ELSE \E idDigitado \in IdsDigitados \cup {EOF} :
           IF idDigitado = EOF
           THEN Fim("atualizar", 3, ev2 \o <<Input("id", EOF)>>,
                    tabela, relogio, proxId, TRUE)
           ELSE IF ~TarefaEncontrada(ids, idDigitado)
           THEN Fim("atualizar", 3,
                    ev2 \o <<Input("id", idDigitado),
                             LogCom("warning", "nao encontrada", idDigitado)>>,
                    tabela, relogio, proxId, FALSE)
           ELSE \E ok3 \in BOOLEAN :
             LET ev3 == ev2 \o <<Input("id", idDigitado)>>
                          \o SqlBusca("SELECT campos", <<idDigitado>>, ok3)
             IN  IF ~ok3 \/ LinhasDoId(idDigitado) = {}
                 THEN Fim("atualizar", 3,
                          ev3 \o <<Log("error", "erro ao buscar dados da tarefa")>>,
                          tabela, relogio, proxId, FALSE)
                 ELSE AtualizarCampos(ev3, idDigitado)

Excluir ==
    /\ Disponivel
    /\ IF ~IsBdReady
       THEN Fim("excluir", 4, <<Log("error", "conexao nao esta ativa")>>,
                tabela, relogio, proxId, FALSE)
       ELSE \E ok1 \in BOOLEAN, ok2 \in BOOLEAN :
         LET ev2 == ExibirEventos(ok1, FALSE) \o SqlBusca("SELECT id", <<>>, ok2)
             ids == BuscarIds(ok2)
         IN
         IF ids = <<>>
         THEN Fim("excluir", 4,
                  ev2 \o <<Log("info", "nenhuma tarefa para excluir")>>,
                  tabela, relogio, proxId, FALSE)
         ELSE \E idDigitado \in IdsDigitados \cup {EOF} :
           IF idDigitado = EOF
           THEN Fim("excluir", 4, ev2 \o <<Input("id", EOF)>>,
                    tabela, relogio, proxId, TRUE)
           ELSE IF ~TarefaEncontrada(ids, idDigitado)
           THEN Fim("excluir", 4,
                    ev2 \o <<Input("id", idDigitado),
                             LogCom("warning", "nao encontrada", idDigitado)>>,
                    tabela, relogio, proxId, FALSE)
           ELSE \E ok3 \in BOOLEAN :
                  Fim("excluir", 4,
                      ev2 \o <<Input("id", idDigitado)>>
                          \o SqlComando("DELETE", <<idDigitado>>, ok3)
                          \o <<Log("info", "tarefa excluida")>>,
                      IF ok3 THEN Excluida(idDigitado) ELSE tabela,
                      relogio, proxId, FALSE)

-----------------------------------------------------------------------------
(* Shutdown, the rest of the menu, and the environment. *)

\* What a method of the gateway returns to a caller other than the manager.
Return(metodo, valor) == Ev("return", metodo, <<valor>>)

\* The guard of executar_comando and buscar_dados: a connection that
\* answers is_connected(), and a cursor.
GatewayVivo == conexao # None /\ conectado /\ cursor # None

\* The rows a fetch the backend executed returns, as their ids in order.
LinhasBuscadas(comando, parametros) ==
    IF comando = "SELECT campos"
    THEN Ordenados(LinhasDoId(parametros[1]))
    ELSE Ordenados(DOMAIN tabela)

\* buscar_dados without its guard: with no cursor, cursor.execute raises
\* AttributeError, which "except Error" does not handle.
BuscarDadosSemGuarda(comando, parametros, ok) ==
    IF cursor = None
    THEN <<Raise("Exception")>>
    ELSE SqlBusca(comando, parametros, ok /\ conectado)
           \o <<Return("buscar_dados",
                       IF ok /\ conectado
                       THEN LinhasBuscadas(comando, parametros) ELSE <<>>)>>

\* BancoDeDados.buscar_dados: the events of the call, the last one being
\* what it returns; ok: the backend executed the statement.
BuscarDadosRes(comando, parametros, ok) ==
    IF ~GatewayVivo
    THEN <<Log("error", "nao ha conexao ativa"),
           Return("buscar_dados", <<>>)>>
    ELSE SqlBusca(comando, parametros, ok)
           \o <<Return("buscar_dados",
                       IF ok THEN LinhasBuscadas(comando, parametros)
                             ELSE <<>>)>>

\* BancoDeDados.executar_comando: the events of the call; it returns None
\* on each of its paths.
ExecutarComandoRes(comando, parametros, ok) ==
    IF ~GatewayVivo
    THEN <<Log("error", "nao ha conexao ativa"),
           Return("executar_comando", None)>>
    ELSE SqlComando(comando, parametros, ok)
           \o <<Return("executar_comando", None)>>

\* The fetches and commands a caller other than the manager issues.
ConsultasDiretas ==
    {<<"SELECT *", <<>>>>, <<"SELECT campos", <<"1">>>>,
     <<"SELECT campos", <<"9">>>>}
ComandosDiretos == {<<"DELETE", <<"1">>>>, <<"DELETE", <<"9">>>>}

\* BancoDeDados.buscar_dados called on the gateway itself.
BuscarDados ==
    /\ pc = "direto"
    /\ \E c \in ConsultasDiretas, ok \in BOOLEAN :
         trace' = BuscarDadosRes(c[1], c[2], ok)
    /\ op' = "buscar_dados"
    /\ pc' = Volta
    /\ UNCHANGED <<bd, conexao, cursor, conectado, tabela, proxId, relogio,
                   fechados>>

\* BancoDeDados.executar_comando called on the gateway itself.
ExecutarComando ==
    /\ pc = "direto"
    /\ \E c \in ComandosDiretos, ok \in BOOLEAN :
         /\ trace' = ExecutarComandoRes(c[1], c[2], ok)
         /\ tabela' = IF GatewayVivo /\ ok THEN Excluida(c[2][1]) ELSE tabela
    /\ op' = "executar_comando"
    /\ pc' = Volta
    /\ UNCHANGED <<bd, conexao, cursor, conectado, proxId, relogio, fechados>>

\* GerenciadorTarefas.fechar_sistema: case 5 of main, which then leaves the
\* loop, or a direct call.
FecharSistema ==
    /\ Disponivel
    /\ \E c \in (IF pc = "menu" THEN EscolhasDe(5) ELSE {""}) :
         trace' = (IF pc = "menu" THEN <<Input("menu", c)>> ELSE <<>>)
                    \o FecharSistemaRes[1]
    /\ fechados' = FecharSistemaRes[2]
    /\ conectado' = FecharSistemaRes[3]
    /\ pc' = IF pc = "menu" THEN "fim" ELSE Volta
    /\ op' = "fechar_sistema"
    /\ UNCHANGED <<bd, conexao, cursor, tabela, proxId, relogio>>

\* BancoDeDados.fechar_conexao called on the gateway itself.
FecharConexao ==
    /\ pc = "direto"
    /\ trace' = FecharConexaoRes[1]
    /\ fechados' = FecharConexaoRes[2]
    /\ conectado' = FecharConexaoRes[3]
    /\ op' = "fechar_conexao"
    /\ pc' = Volta
    /\ UNCHANGED <<bd, conexao, cursor, tabela, proxId, relogio>>

\* main's loop on a choice that is none of 1..5: int() raises ValueError
\* (logged as error), the number matches case _ (logged as warning), or
\* input() raises EOFError, which "except Exception" handles.
MenuOutro ==
    /\ pc = "menu"
    /\ op' = "menu"
    /\ UNCHANGED <<bd, conexao, cursor, tabela, proxId, relogio>>
    /\ \E c \in EscolhasMenu \cup {EOF} :
         IF c = EOF
         THEN /\ trace' = <<Input("menu", EOF),
                            Log("critical", "erro inesperado")>>
                            \o FecharSistemaRes[1]
              /\ fechados' = FecharSistemaRes[2]
              /\ conectado' = FecharSistemaRes[3]
              /\ pc' = "fim"
         ELSE /\ ~(ParseInt(c).ok /\ ParseInt(c).valor \in 1..5)
              /\ trace' = <<Input("menu", c),
                            IF ParseInt(c).ok
                            THEN Log("warning", "opcao nao encontrada")
                            ELSE Log("error", "entrada invalida")>>
              /\ pc' = Volta
              /\ UNCHANGED <<fechados, conectado>>

\* Ctrl-C at the menu prompt: input() raises KeyboardInterrupt, which is not
\* an Exception, so neither except clause of main handles it.
Interromper ==
    /\ pc = "menu"
    /\ pc' = "fim"
    /\ op' = "menu"
    /\ trace' = <<Input("menu", EOF), Raise("KeyboardInterrupt")>>
    /\ UNCHANGED <<bd, conexao, cursor, conectado, tabela, proxId, relogio,
                   fechados>>

\* main's loop starts its next iteration and prints the menu; a direct
\* caller goes on to its next call.  The events of the handler that
\* returned are the past.
Continuar ==
    /\ pc \in {"iteracao", "retorno"}
    /\ pc' = IF pc = "iteracao" THEN "menu" ELSE "direto"
    /\ op' = "nenhuma"
    /\ trace' = <<>>
    /\ UNCHANGED <<bd, conexao, cursor, conectado, tabela, proxId, relogio,
                   fechados>>

\* The backend drops the connection between two handlers: is_connected()
\* answers False from now on.
PerderConexao ==
    /\ Disponivel
    /\ conexao # None
    /\ conectado
    /\ conectado' = FALSE
    /\ UNCHANGED <<pc, bd, conexao, cursor, tabela, proxId, relogio, fechados,
                   op, trace>>

Next ==
    \/ MainInicia
    \/ ConstroiDireto
    \/ Cadastrar
    \/ Exibir
    \/ Atualizar
    \/ Excluir
    \/ FecharSistema
    \/ FecharConexao
    \/ BuscarDados
    \/ ExecutarComando
    \/ MenuOutro
    \/ Interromper
    \/ Continuar
    \/ PerderConexao

Spec == Init /\ [][Next]_vars


SpecLegado == InitLegado /\ [][Next]_vars

-----------------------------------------------------------------------------
(* Reading a trace. *)

\* The events of tr of kind ev and type tipo, in order.
Eventos(tr, ev, tipo) ==
    SelectSeq(tr, LAMBDA e : e.ev = ev /\ e.tipo = tipo)

\* The storage calls of tr with statement comando.
Sqls(tr, comando) == Eventos(tr, "sql", comando)

\* The parameters bound to the storage call e.
Parametros(e) == e.dados[1]

\* The answers given to prompt in tr.
Respostas(tr, prompt) ==
    [k \in 1..Len(Eventos(tr, "input", prompt)) |->
        Eventos(tr, "input", prompt)[k].dados[1]]

\* The storage calls of tr that change the table.
Mutacoes(tr) ==
    SelectSeq(tr, LAMBDA e : e.ev = "sql"
                             /\ e.tipo \in {"INSERT", "UPDATE", "DELETE"})

\* A status that equals 'concluída' when case is ignored.
StatusConcluida(st) == st \in {"concluída", "Concluída", "CONCLUÍDA"}

-----------------------------------------------------------------------------
(* C1 *)

\* The step is an Update that bound an UPDATE statement.
C1_Atualizou == op' = "atualizar" /\ Len(Sqls(trace', "UPDATE")) = 1

\* Of such a step: the task's row before it (antes), the old status s1, the
\* new status s2 (what was typed, or s1 when nothing was), the timestamp
\* the UPDATE binds (escrita) and the time of the update (agora, later than
\* every time read before).
C1_Dados ==
    LET p == Parametros(Sqls(trace', "UPDATE")[1])
        antes == tabela[CHOOSE i \in DOMAIN tabela : Str(i) = p[6]]
        digitado == Respostas(trace', "novo status")[1]
    IN  [s1 |-> antes.status,
         s2 |-> IF digitado = "" THEN antes.status ELSE digitado,
         armazenada |-> antes.data_conclusao,
         escrita |-> p[5],
         agora |-> relogio + 1]

\* The status goes from not concluída to concluída.
C1_Conclui(d) == StatusConcluida(d.s2) /\ ~StatusConcluida(d.s1)

\* The status goes from concluída to not concluída.
C1_Reabre(d) == ~StatusConcluida(d.s2) /\ StatusConcluida(d.s1)

C1_Original(d) ==
    /\ d.escrita = d.agora <=> C1_Conclui(d)
    /\ d.escrita = NoneData <=> C1_Reabre(d)
    /\ (~C1_Conclui(d) /\ ~C1_Reabre(d)) => d.escrita = d.armazenada

C1_Regra(d) ==
    /\ d.escrita = d.agora <=> C1_Conclui(d)
    /\ C1_Reabre(d) => d.escrita = NoneData
    /\ (~C1_Conclui(d) /\ ~C1_Reabre(d)) => d.escrita = d.armazenada

\* C1 as stated: the timestamp an Update writes is the update's "now" iff
\* the new status is concluída and the old one is not, is null iff the new
\* status is not concluída and the old one is, and otherwise is the
\* timestamp stored before.
C1_ComoEscrita == [][C1_Atualizou => C1_Original(C1_Dados)]_vars

\* C1 amended: the timestamp an Update writes is the update's "now" iff the
\* new status is concluída and the old one is not; it is null if the new
\* status is not concluída and the old one is; in every other case it is
\* the timestamp stored before, which may itself be null.
C1_RegraDeTransicao == [][C1_Atualizou => C1_Regra(C1_Dados)]_vars

\* An Update changed a status that was not concluída into one that is,
\* typed in another case, and wrote its "now".
C1_Testemunha ==
    /\ op = "atualizar"
    /\ Len(Sqls(trace, "UPDATE")) = 1
    /\ Respostas(trace, "novo status") = <<"CONCLUÍDA">>
    /\ Parametros(Sqls(trace, "UPDATE")[1])[5] = relogio


-----------------------------------------------------------------------------
(* C2 *)

\* C2: starting from an empty table, every stored task has a completion
\* timestamp iff its status is 'concluída' when case is ignored, whatever
\* handlers ran and whichever of their storage calls failed.
C2_ConclusaoSseConcluida ==
    \A i \in DOMAIN tabela :
        tabela[i].data_conclusao # NoneData
          <=> StatusConcluida(tabela[i].status)

\* An Update has just stored a completed task.
C2_Testemunha ==
    /\ op = "atualizar"
    /\ Len(Sqls(trace, "UPDATE")) = 1
    /\ \E i \in DOMAIN tabela :
         /\ StatusConcluida(tabela[i].status)
         /\ tabela[i].data_conclusao = relogio

-----------------------------------------------------------------------------
(* C3 *)

\* The step is an Update or a Delete that read an ID which is the str() of
\* no id of the non-empty table.
C3_IdInexistente ==
    /\ op' \in {"atualizar", "excluir"}
    /\ Len(Respostas(trace', "id")) = 1
    /\ Respostas(trace', "id")[1] # EOF
    /\ DOMAIN tabela # {}
    /\ \A i \in DOMAIN tabela : Str(i) # Respostas(trace', "id")[1]

\* C3: an Update or Delete given an ID that no task of the non-empty table
\* has issues no UPDATE and no DELETE, leaves the table as it was and logs
\* a not-found warning that carries the ID.
C3_IdNaoEncontrado ==
    [][C3_IdInexistente =>
         /\ Mutacoes(trace') = <<>>
         /\ tabela' = tabela
         /\ \E k \in 1..Len(trace') :
              /\ trace'[k].ev = "log"
              /\ trace'[k].tipo = "warning"
              /\ trace'[k].dados
                   = <<"nao encontrada", Respostas(trace', "id")[1]>>]_vars

\* A Delete was given "01" while the table held a task: the backend would
\* read "01" as 1, str(1) is not "01".
C3_Testemunha ==
    /\ op = "excluir"
    /\ Respostas(trace, "id") = <<"01">>
    /\ 1 \in DOMAIN tabela

-----------------------------------------------------------------------------
(* C4 *)

\* C4 as stated: every stored task has a title of at least 12 characters.
C4_ComoEscrita ==
    \A i \in DOMAIN tabela : Len(tabela[i].titulo) >= 12

\* The step is an Update whose UPDATE the backend executed and which binds
\* the title the user typed, titulo, for the task of id i.
C4_TituloDigitado(i, titulo) ==
    /\ op' = "atualizar"
    /\ Len(Sqls(trace', "UPDATE")) = 1
    /\ Respostas(trace', "novo titulo") = <<titulo>>
    /\ Parametros(Sqls(trace', "UPDATE")[1])[1] = titulo
    /\ Str(i) = Parametros(Sqls(trace', "UPDATE")[1])[6]

\* C4 amended: every stored task has a non-empty title, and a stored title
\* has fewer than 12 characters only once an Update has replaced it by
\* what the user typed: Create checks the length, Update does not.
C4_TituloNaoVazio ==
    /\ [](\A i \in DOMAIN tabela : Len(tabela[i].titulo) >= 1)
    /\ [][\A i \in DOMAIN tabela' :
            Len(tabela'[i].titulo) < 12 =>
              \/ (i \in DOMAIN tabela /\ tabela[i].titulo = tabela'[i].titulo)
              \/ C4_TituloDigitado(i, tabela'[i].titulo)]_vars

\* An Update has just replaced a title by one of 11 characters.
C4_Testemunha ==
    /\ op = "atualizar"
    /\ Respostas(trace, "novo titulo") = <<"Novo Titulo">>
    /\ \E i \in DOMAIN tabela : tabela[i].titulo = "Novo Titulo"

-----------------------------------------------------------------------------
(* C5 *)

\* Event k of tr is the title prompt answered with a line (not EOF) of
\* fewer than 12 characters.
C5_TituloCurto(tr, k) ==
    /\ tr[k].ev = "input"
    /\ tr[k].tipo = "titulo"
    /\ tr[k].dados[1] # EOF
    /\ Len(tr[k].dados[1]) < 12

\* Event k of tr is the title prompt answered with 12 characters or more.
C5_TituloLongo(tr, k) ==
    /\ tr[k].ev = "input"
    /\ tr[k].tipo = "titulo"
    /\ tr[k].dados[1] # EOF
    /\ Len(tr[k].dados[1]) >= 12

\* Event k of tr is one of the steps Create takes after the title loop.
C5_DepoisDoTitulo(tr, k) ==
    \/ tr[k].ev = "input" /\ tr[k].tipo \in {"descricao", "responsavel"}
    \/ tr[k].ev = "sql" /\ tr[k].tipo = "INSERT"

\* C5: in a Create, every title entry of fewer than 12 characters is
\* followed by another title prompt before anything else is read or
\* inserted; the description and owner prompts and the insert come only
\* after an entry of 12 characters or more, which is the last title read;
\* and there is at most one insert.
C5_TituloCurtoRepergunta ==
    op = "cadastrar" =>
      /\ \A k \in 1..Len(trace) :
           C5_TituloCurto(trace, k) =>
             /\ k < Len(trace)
             /\ trace[k + 1] = Log("warning", "titulo curto")
             /\ k + 1 < Len(trace)
             /\ trace[k + 2].ev = "input"
             /\ trace[k + 2].tipo = "titulo"
      /\ \A k \in 1..Len(trace) :
           C5_DepoisDoTitulo(trace, k) =>
             \E j \in 1..(k - 1) :
               /\ C5_TituloLongo(trace, j)
               /\ \A m \in (j + 1)..Len(trace) :
                    ~(trace[m].ev = "input" /\ trace[m].tipo = "titulo")
      /\ Len(Sqls(trace, "INSERT")) <= 1

\* A Create read a title of 11 characters, asked again, read one of 12 and
\* inserted.
C5_Testemunha ==
    /\ op = "cadastrar"
    /\ Respostas(trace, "titulo") = <<"onze letras", "doze letras!">>
    /\ Len(Sqls(trace, "INSERT")) = 1

-----------------------------------------------------------------------------
(* C6 *)

\* The Create that just ran read a title of 12 characters or more, a
\* description and an owner (it prompts only on a ready gateway).
C6_Cadastrou ==
    /\ op = "cadastrar"
    /\ Len(Respostas(trace, "titulo")) >= 1
    /\ LET ts == Respostas(trace, "titulo")
       IN  ts[Len(ts)] # EOF /\ Len(ts[Len(ts)]) >= 12
    /\ Len(Respostas(trace, "descricao")) = 1
    /\ Respostas(trace, "descricao")[1] # EOF
    /\ Len(Respostas(trace, "responsavel")) = 1
    /\ Respostas(trace, "responsavel")[1] # EOF

\* C6: such a Create issues exactly one INSERT, which binds the title,
\* description and owner entered, status 'Pendente', a creation timestamp
\* (the time of the Create) and a null completion timestamp.
C6_UmInsertPendente ==
    C6_Cadastrou =>
      /\ Len(Sqls(trace, "INSERT")) = 1
      /\ Len(Mutacoes(trace)) = 1
      /\ LET p == Parametros(Sqls(trace, "INSERT")[1])
             ts == Respostas(trace, "titulo")
         IN  /\ Len(p) = 6
             /\ p[1] = ts[Len(ts)]
             /\ p[2] = Respostas(trace, "descricao")[1]
             /\ p[3] = Respostas(trace, "responsavel")[1]
             /\ p[4] = "Pendente"
             /\ p[5] # NoneData
             /\ p[5] = relogio
             /\ p[6] = NoneData

\* A Create inserted a task that the table now holds.
C6_Testemunha ==
    /\ C6_Cadastrou
    /\ Len(Sqls(trace, "INSERT")) = 1
    /\ Sqls(trace, "INSERT")[1].dados[2]
    /\ \E i \in DOMAIN tabela : tabela[i].data_criacao = relogio


-----------------------------------------------------------------------------
(* C7 *)

\* What a handler did, without main's menu prompt that dispatched it.
C7_DoHandler(tr) ==
    SelectSeq(tr, LAMBDA e : ~(e.ev = "input" /\ e.tipo = "menu"))

\* C7: a Create, List, Update or Delete that starts while the manager has
\* no gateway, the connection is null or the backend reports it not
\* connected logs one error and returns: no prompt, no storage call, the
\* table unchanged, no exception.
C7_NaoProntoNaoOpera ==
    [][(/\ op' \in {"cadastrar", "exibir", "atualizar", "excluir"}
        /\ (~bd \/ conexao = None \/ ~conectado))
         => /\ Len(C7_DoHandler(trace')) = 1
            /\ C7_DoHandler(trace')[1].ev = "log"
            /\ C7_DoHandler(trace')[1].tipo = "error"
            /\ tabela' = tabela
            /\ proxId' = proxId
            /\ pc' # "fim"]_vars

\* In main's loop, an Update found the connection lost after the gateway
\* had been ready, while the table held a task.
C7_Testemunha ==
    /\ op = "atualizar"
    /\ pc = "iteracao"
    /\ bd
    /\ conexao # None
    /\ ~conectado
    /\ fechados.conexao = 0
    /\ DOMAIN tabela # {}
    /\ Len(Eventos(trace, "log", "error")) = 1

-----------------------------------------------------------------------------
(* C8 *)

\* C8 as stated: when the construction of the gateway yields no live
\* connection, conexao and cursor are both null and no CREATE TABLE was
\* issued.
C8_ComoEscrita ==
    (op = "construir" /\ ~(conexao # None /\ conectado)) =>
      /\ conexao = None
      /\ cursor = None
      /\ Sqls(trace, "CREATE TABLE") = <<>>

-----------------------------------------------------------------------------
(* C9 *)

\* The step calls BancoDeDados.fechar_conexao from outside a handler.
C9_ChamaFechar ==
    \/ op' = "fechar_conexao"
    \/ op' = "fechar_sistema" /\ bd

\* The close() calls recorded in tr for objeto.
C9_Closes(tr, objeto) == Eventos(tr, "close", objeto)

\* C9: Close on a live gateway closes the cursor once and the connection
\* once; Close on a gateway that is closed already, or that never
\* connected, closes nothing, logs that there is nothing to close and
\* leaves the gateway as it was; so over any run each is closed at most
\* once.
C9_FecharIdempotente ==
    /\ [](fechados.cursor <= 1 /\ fechados.conexao <= 1)
    /\ [][C9_ChamaFechar =>
            IF conexao # None /\ conectado
            THEN /\ Len(C9_Closes(trace', "cursor")) = 1
                 /\ Len(C9_Closes(trace', "conexao")) = 1
                 /\ fechados'.cursor = fechados.cursor + 1
                 /\ fechados'.conexao = fechados.conexao + 1
                 /\ ~conectado'
                 /\ Eventos(trace', "raise", "Exception") = <<>>
            ELSE /\ C9_Closes(trace', "cursor") = <<>>
                 /\ C9_Closes(trace', "conexao") = <<>>
                 /\ \E k \in 1..Len(trace') :
                      trace'[k] = Log("info", "nenhuma conexao ativa")
                 /\ fechados' = fechados
                 /\ <<conexao, cursor, conectado>>'
                      = <<conexao, cursor, conectado>>
                 /\ Eventos(trace', "raise", "Exception") = <<>>]_vars

\* A Close on a gateway that an earlier Close had closed.
C9_Testemunha ==
    /\ op = "fechar_conexao"
    /\ fechados.conexao = 1
    /\ fechados.cursor = 1
    /\ trace = <<Log("info", "nenhuma conexao ativa")>>

-----------------------------------------------------------------------------
(* C10 *)

\* BancoDeDados.fechar_conexao was called in tr (either of its branches).
C10_FechouGateway(tr) ==
    \E k \in 1..Len(tr) :
        \/ tr[k] = Close("conexao")
        \/ tr[k] = Log("info", "nenhuma conexao ativa")

\* The user chose option 5 in tr.
C10_EscolheuSair(tr) ==
    /\ Len(Respostas(tr, "menu")) = 1
    /\ Respostas(tr, "menu")[1] # EOF
    /\ ParseInt(Respostas(tr, "menu")[1]) = [ok |-> TRUE, valor |-> 5]

\* The dispatch of tr raised an Exception, which main logged as critical.
C10_FalhaInesperada(tr) ==
    \E k \in 1..Len(tr) : tr[k] = Log("critical", "erro inesperado")

\* C10 as stated: the program is past its menu loop only by option 5, by
\* an unexpected failure during dispatch or by a connection failure, and in
\* every case the gateway's Close was invoked before.
C10_ComoEscrita ==
    pc = "fim" =>
      /\ \/ C10_EscolheuSair(trace)
         \/ C10_FalhaInesperada(trace)
         \/ ~(conexao # None /\ conectado)
      /\ C10_FechouGateway(trace)

\* C10 amended: main's loop, once entered, ends only when the user chooses
\* option 5 or an Exception is raised during dispatch, and on both paths
\* the gateway's Close is invoked before the loop ends; Close is invoked
\* from the loop on no other path, and nothing is dispatched after the
\* loop ended.  A connection failure does not end the loop (the handlers
\* log an error and the loop goes on); at startup it ends main before the
\* loop, with no Close.  A KeyboardInterrupt, which is no Exception, ends
\* the loop with no Close.
C10_FimDoLaco ==
    /\ [][(pc = "menu" /\ pc' = "fim") =>
            \/ (C10_EscolheuSair(trace') /\ C10_FechouGateway(trace'))
            \/ (C10_FalhaInesperada(trace') /\ C10_FechouGateway(trace'))
            \/ Eventos(trace', "raise", "KeyboardInterrupt") # <<>>]_vars
    /\ [][(pc = "menu" /\ C10_FechouGateway(trace')) => pc' = "fim"]_vars
    /\ [][pc # "fim"]_vars
    /\ [][pc' = "fim" => pc \in {"menu", "inicio"}]_vars
    /\ [][(pc = "inicio" /\ pc' = "fim") =>
            (~(conexao' # None /\ conectado') /\ ~C10_FechouGateway(trace'))]_vars

\* An Update raised in main's loop (its ID prompt met the end of the input):
\* main logged it, closed the live gateway and left the loop.
C10_Testemunha ==
    /\ pc = "fim"
    /\ op = "atualizar"
    /\ C10_FalhaInesperada(trace)
    /\ Len(Eventos(trace, "close", "conexao")) = 1

-----------------------------------------------------------------------------
(* C11 *)

\* Menu choices for which int() raises ValueError.
C11_NaoNumericas == {"abc", ""}

\* Menu choices that are numbers outside 1..5.
C11_ForaDoMenu == {"0", "6", " 6"}

\* C11: in main's loop a non-numeric choice is logged as an error and a
\* number outside 1..5 as a warning; either way nothing else happens in
\* the iteration (no handler runs, no storage call, no close(), the
\* connection and the table are as before) and the loop goes on to the
\* next menu prompt.
C11_EscolhaInvalidaContinua ==
    /\ [][(pc = "menu" /\ Len(Respostas(trace', "menu")) = 1
            /\ Respostas(trace', "menu")[1]
                  \in C11_NaoNumericas \cup C11_ForaDoMenu) =>
            LET c == Respostas(trace', "menu")[1]
            IN  /\ Len(trace') = 2
                /\ trace'[1] = Input("menu", c)
                /\ trace'[2] = (IF c \in C11_NaoNumericas
                                THEN Log("error", "entrada invalida")
                                ELSE Log("warning", "opcao nao encontrada"))
                /\ op' = "menu"
                /\ pc' = "iteracao"
                /\ UNCHANGED <<bd, conexao, cursor, conectado, fechados,
                               tabela, proxId, relogio>>]_vars
    /\ [][pc = "iteracao" =>
            /\ pc' = "menu"
            /\ UNCHANGED <<bd, conexao, cursor, conectado, fechados,
                           tabela, proxId, relogio>>]_vars

\* main's loop, with a live connection and a task stored, has just answered
\* the choice " 6" with the warning.
C11_Testemunha ==
    /\ pc = "iteracao"
    /\ op = "menu"
    /\ trace = <<Input("menu", " 6"), Log("warning", "opcao nao encontrada")>>
    /\ conexao # None /\ conectado
    /\ DOMAIN tabela # {}

-----------------------------------------------------------------------------
(* C12 *)

\* The step is an Update whose UPDATE statement the backend executed.
C12_AtualizouComSucesso ==
    /\ op' = "atualizar"
    /\ Len(Sqls(trace', "UPDATE")) = 1
    /\ Sqls(trace', "UPDATE")[1].dados[2]

\* The field campo of task i is after the step what it was before.
C12_Igual(i, campo) == tabela'[i][campo] = tabela[i][campo]

\* The user left the entry of prompt empty in the step.
C12_EmBranco(prompt) == Respostas(trace', prompt) = <<"">>

\* C12: a successful Update of task T leaves the set of ids, T's creation
\* timestamp and every other task as they were, and keeps each of T's
\* title, description, owner and status whose entry was left empty.
C12_SoOsCamposDaTarefa ==
    [][C12_AtualizouComSucesso =>
        LET T == CHOOSE i \in DOMAIN tabela :
                   Str(i) = Parametros(Sqls(trace', "UPDATE")[1])[6]
        IN  /\ \E i \in DOMAIN tabela : Str(i) = Respostas(trace', "id")[1]
            /\ Str(T) = Respostas(trace', "id")[1]
            /\ DOMAIN tabela' = DOMAIN tabela
            /\ proxId' = proxId
            /\ \A i \in DOMAIN tabela \ {T} : tabela'[i] = tabela[i]
            /\ C12_Igual(T, "data_criacao")
            /\ C12_EmBranco("novo titulo") => C12_Igual(T, "titulo")
            /\ C12_EmBranco("nova descricao") => C12_Igual(T, "descricao")
            /\ C12_EmBranco("novo responsavel") => C12_Igual(T, "responsavel")
            /\ C12_EmBranco("novo status") => C12_Igual(T, "status")]_vars

\* With two tasks stored, a successful Update has just rewritten the
\* description of one of them, its title entry left empty.
C12_Testemunha ==
    /\ op = "atualizar"
    /\ Len(Sqls(trace, "UPDATE")) = 1
    /\ Sqls(trace, "UPDATE")[1].dados[2]
    /\ Respostas(trace, "novo titulo") = <<"">>
    /\ Respostas(trace, "nova descricao") = <<"Nova Descricao">>
    /\ Cardinality(DOMAIN tabela) = 2
    /\ \E i, j \in DOMAIN tabela :
          /\ tabela[i].descricao = "Nova Descricao"
          /\ tabela[i].titulo = "doze letras!"
          /\ tabela[j].descricao = "desc"

-----------------------------------------------------------------------------
(* C13 *)

\* The per-row blocks logged in tr, in order.
C13_Blocos(tr) ==
    SelectSeq(tr, LAMBDA e : e.ev = "log" /\ e.dados[1] = "tarefa")

\* The "no tasks" signals logged in tr.
C13_SemTarefas(tr) ==
    SelectSeq(tr, LAMBDA e : e = Log("info", "nenhuma tarefa cadastrada"))

\* The step is a List on a ready gateway.
C13_Listou == op' = "exibir" /\ IsBdReady

\* In the step, List issued one SELECT *, no other storage call, and left
\* the table as it was.
C13_UmaBusca ==
    /\ Len(Sqls(trace', "SELECT *")) = 1
    /\ Len(SelectSeq(trace', LAMBDA e : e.ev = "sql")) = 1
    /\ tabela' = tabela
    /\ proxId' = proxId

\* The blocks of the step are one per row of ids, in that order, each
\* showing 'Não concluída' iff the row has no completion timestamp; with no
\* row there is the "no tasks" signal instead.
C13_BlocosDe(ids) ==
    LET blocos == C13_Blocos(trace')
    IN  /\ Len(blocos) = Len(ids)
        /\ \A k \in 1..Len(ids) :
              /\ blocos[k].dados[2] = Str(ids[k])
              /\ blocos[k].dados[8] = "Não concluída"
                   <=> tabela[ids[k]].data_conclusao = NoneData
        /\ Len(C13_SemTarefas(trace')) = (IF ids = <<>> THEN 1 ELSE 0)

\* C13 as stated: List fetches once, changes nothing, and logs one block
\* per stored row (the "no tasks" signal when no row is stored).
C13_ComoEscrita ==
    [][C13_Listou =>
        C13_UmaBusca /\ C13_BlocosDe(Ordenados(DOMAIN tabela))]_vars

\* C13 amended: List on a ready gateway fetches once and changes nothing;
\* it logs one block per fetched row, in fetch order, whose completion
\* field is 'Não concluída' iff the row's completion timestamp is null.
\* When no row is fetched, because none is stored or because the fetch
\* failed, it logs the "no tasks" signal and no block, even though rows
\* may be stored.
C13_UmBlocoPorLinhaBuscada ==
    [][C13_Listou =>
        /\ C13_UmaBusca
        /\ C13_BlocosDe(IF Sqls(trace', "SELECT *")[1].dados[2]
                        THEN Ordenados(DOMAIN tabela) ELSE <<>>)]_vars

\* List has just shown the one stored task, concluded at time 2.
C13_Testemunha ==
    /\ op = "exibir"
    /\ DOMAIN tabela = {1}
    /\ tabela[1].data_conclusao = 2
    /\ Len(C13_Blocos(trace)) = 1
    /\ C13_Blocos(trace)[1].dados[2] = "1"
    /\ C13_Blocos(trace)[1].dados[8] = "2"

-----------------------------------------------------------------------------
(* C14 *)

\* The last handler was an Update that fetched the current values of the
\* task of the entered ID and got an answer at each of its four prompts.
C14_Respondido ==
    /\ op = "atualizar"
    /\ Len(Sqls(trace, "SELECT campos")) = 1
    /\ Sqls(trace, "SELECT campos")[1].dados[2]
    /\ Len(Respostas(trace, "novo status")) = 1
    /\ Respostas(trace, "novo status")[1] # EOF

\* C14 as stated: whatever the stored status (null included) and the
\* entries (an empty status included), such an Update raises nothing and
\* issues exactly one UPDATE, keyed by the entered ID.
C14_ComoEscrita ==
    C14_Respondido =>
      /\ Eventos(trace, "raise", "Exception") = <<>>
      /\ Eventos(trace, "log", "critical") = <<>>
      /\ Len(Sqls(trace, "UPDATE")) = 1
      /\ Parametros(Sqls(trace, "UPDATE")[1])[6] = Respostas(trace, "id")[1]

-----------------------------------------------------------------------------
(* C15 *)

\* The storage calls of tr the backend did not execute (it raised Error),
\* as positions of tr.  The CREATE TABLE is not issued through Execute
\* Command.
C15_Falhas(tr) ==
    {k \in 1..Len(tr) : /\ tr[k].ev = "sql"
                        /\ tr[k].tipo # "CREATE TABLE"
                        /\ ~tr[k].dados[2]}

\* The backend executed a storage call of tr.
C15_Executou(tr) ==
    \E k \in 1..Len(tr) : tr[k].ev = "sql" /\ tr[k].dados[2]

\* What the call of the gateway recorded in tr returned.
C15_Retorno(tr) == tr[Len(tr)].dados[1]

\* No stored row matches the fetch recorded in tr.
C15_NadaCombina(tr) ==
    LET e == CHOOSE e \in {tr[k] : k \in 1..Len(tr)} : e.ev = "sql"
    IN  IF e.tipo = "SELECT campos"
        THEN ~\E i \in DOMAIN tabela : Str(i) = Parametros(e)[1]
        ELSE DOMAIN tabela = {}

\* C15: an Error of the backend during executar_comando or buscar_dados
\* stays inside the gateway.  The call logs it and returns: a failed
\* command returns None and leaves the table as it was; a failed fetch,
\* and a fetch on a gateway that is not live, returns the empty sequence,
\* as does an executed fetch that no row matches.  Inside the handlers of
\* the manager the failed call is followed by the gateway's error log and
\* a failed INSERT, UPDATE or DELETE leaves the table as it was.
C15_ErroNaoPropaga ==
    /\ [][op' \in {"buscar_dados", "executar_comando"} =>
            /\ trace' # <<>>
            /\ trace'[Len(trace')].ev = "return"
            /\ Eventos(trace', "raise", "Exception") = <<>>]_vars
    /\ [][op' = "executar_comando" =>
            /\ C15_Retorno(trace') = None
            /\ ~C15_Executou(trace') => tabela' = tabela]_vars
    /\ [][op' = "buscar_dados" =>
            /\ ~C15_Executou(trace') => C15_Retorno(trace') = <<>>
            /\ (C15_Executou(trace') /\ C15_NadaCombina(trace'))
                 => C15_Retorno(trace') = <<>>
            /\ (C15_Executou(trace') /\ ~C15_NadaCombina(trace'))
                 => C15_Retorno(trace') # <<>>
            /\ tabela' = tabela]_vars
    /\ [][\A k \in C15_Falhas(trace') :
            /\ k < Len(trace')
            /\ trace'[k + 1].ev = "log"
            /\ trace'[k + 1].tipo = "error"
            /\ trace'[k].tipo \in {"INSERT", "UPDATE", "DELETE"}
                 => tabela' = tabela]_vars

\* With a task stored, a fetch called on the live gateway has just failed
\* in the backend and returned the empty sequence.
C15_Testemunha ==
    /\ op = "buscar_dados"
    /\ DOMAIN tabela # {}
    /\ Len(trace) = 3
    /\ trace[1] = Sql("SELECT *", <<>>, FALSE)
    /\ trace[3] = Return("buscar_dados", <<>>)

-----------------------------------------------------------------------------
(* C16 *)

\* The storage calls of tr, in order.
C16_Chamadas(tr) == SelectSeq(tr, LAMBDA e : e.ev = "sql")

\* The order Update issues its storage calls in.
C16_Ordem == <<"SELECT *", "SELECT id", "SELECT campos", "UPDATE">>

\* C16: an Update on a ready gateway issues its storage calls in the order
\* SELECT * (List), SELECT id, SELECT of the current values, UPDATE,
\* stopping anywhere after the second.  It goes past the ID fetch only if
\* that fetch returned ids and the entered ID is string-equal to a stored
\* id, and it issues the UPDATE, once and last, only if moreover the fetch
\* of the current values returned the row.
C16_OrdemDasChamadas ==
    [][(op' = "atualizar" /\ IsBdReady) =>
        LET ch == C16_Chamadas(trace')
        IN  /\ Len(ch) \in 2..4
            /\ \A k \in 1..Len(ch) : ch[k].tipo = C16_Ordem[k]
            /\ Len(ch) >= 3 =>
                  /\ ch[2].dados[2]
                  /\ DOMAIN tabela # {}
                  /\ Len(Respostas(trace', "id")) = 1
                  /\ \E i \in DOMAIN tabela :
                        Str(i) = Respostas(trace', "id")[1]
                  /\ Parametros(ch[3]) = <<Respostas(trace', "id")[1]>>
            /\ Len(ch) = 4 =>
                  /\ ch[3].dados[2]
                  /\ Parametros(ch[4])[6] = Respostas(trace', "id")[1]]_vars

\* An Update has just issued its four storage calls, the List fetch having
\* failed and the others executed.
C16_Testemunha ==
    /\ op = "atualizar"
    /\ Len(C16_Chamadas(trace)) = 4
    /\ ~C16_Chamadas(trace)[1].dados[2]
    /\ C16_Chamadas(trace)[2].dados[2]
    /\ C16_Chamadas(trace)[3].dados[2]
    /\ C16_Chamadas(trace)[4].tipo = "UPDATE"
    /\ C16_Chamadas(trace)[4].dados[2]

-----------------------------------------------------------------------------
(* C17 *)

\* The step is a handler of the manager, nome, in which the backend
\* executed the statement comando.
C17_Executou(nome, comando) ==
    /\ op' = nome
    /\ Len(Sqls(trace', comando)) = 1
    /\ Sqls(trace', comando)[1].dados[2]

\* The tasks stored under the ids of S are after the step what they were.
C17_Iguais(S) == \A i \in S : tabela'[i] = tabela[i]

\* C17: a Create whose INSERT was executed adds one task, under an id no
\* stored task has, and a Delete whose DELETE was executed removes the task
\* of the entered id, which was stored; the other tasks are as before.  No
\* other step of the manager or of main's loop adds or removes a task:
\* not List, not Update, not a failed Create or Delete.
C17_SoCreateEDelete ==
    /\ [][C17_Executou("cadastrar", "INSERT") =>
            \E novo \in DOMAIN tabela' :
                /\ novo \notin DOMAIN tabela
                /\ DOMAIN tabela' = DOMAIN tabela \cup {novo}
                /\ C17_Iguais(DOMAIN tabela)]_vars
    /\ [][C17_Executou("excluir", "DELETE") =>
            \E velho \in DOMAIN tabela :
                /\ Str(velho) = Respostas(trace', "id")[1]
                /\ Parametros(Sqls(trace', "DELETE")[1]) = <<Str(velho)>>
                /\ DOMAIN tabela' = DOMAIN tabela \ {velho}
                /\ C17_Iguais(DOMAIN tabela')]_vars
    /\ [][(op' # "executar_comando"
            /\ ~C17_Executou("cadastrar", "INSERT")
            /\ ~C17_Executou("excluir", "DELETE")) =>
            DOMAIN tabela' = DOMAIN tabela]_vars
    /\ [][op' \in {"exibir", "atualizar"} =>
            DOMAIN tabela' = DOMAIN tabela]_vars

\* With two tasks stored, a Delete has just removed the first: the second
\* is left as it was.
C17_Testemunha ==
    /\ op = "excluir"
    /\ Len(Sqls(trace, "DELETE")) = 1
    /\ Sqls(trace, "DELETE")[1].dados[2]
    /\ Respostas(trace, "id") = <<"1">>
    /\ DOMAIN tabela = {2}
    /\ tabela[2].data_criacao = 2

=============================================================================
